---- MODULE Spec2Model ----
(***************************************************************************)
(* Model of the test-execution and progress-gating core of the Learn       *)
(* Programming extension: ProgressTracker (the sqlite store and the unlock *)
(* policy), TestRunner (one subprocess per run, currentProcess slot),      *)
(* BatchTestRunner (the runAllTests loop) and the entry points of          *)
(* extension.ts that reach them.                                           *)
(*                                                                         *)
(* Scheduling follows the Node.js event loop.  A handler runs to its first *)
(* await without interruption; a continuation that is already runnable (a  *)
(* resolved promise, a process.nextTick callback) runs before any further  *)
(* event or command is taken.  Such runnable continuations are the         *)
(* "urgent" steps below; events and commands are taken only when no urgent *)
(* step is pending.                                                        *)
(***************************************************************************)
EXTENDS Integers, Sequences, FiniteSets, TLC

\* ------------------------------------------------------------------ bounds
\* number of exercises of the loaded course (ids 1..NumExercises, in order)
NumExercises == 2
\* number of runTest invocations that can be unsettled at the same time
MaxRuns == 2
\* number of runAllTests invocations that can be active at the same time
MaxBatches == 2
\* cap of the total_test_runs counter
MaxTestRuns == 3
\* values new Date() can take
MaxTime == 1
\* runTest invocations a behaviour of the executor-only specification counts
MaxExecRuns == 2
\* cap of the hints_used counter
MaxHints == 2
\* runTest invocations a behaviour of the direct-call specification counts
MaxCallRuns == 1
\* values new Date() can take in the store-only specification
MaxStoreTime == 2
\* largest number of exercises of a course whose summary or next exercise is asked for
MaxCourseLen == 3
\* 'data' events a behaviour of the output specification counts
MaxChunks == 2

ExerciseIds == 1..NumExercises
Times == 1..MaxTime
StoreTimes == 1..MaxStoreTime

\* the course's exercise list, CourseManager.getExercises().map(ex => ex.id)
CourseIds == [i \in 1..NumExercises |-> i]

\* SQL NULL / JavaScript undefined in a timestamp column or field
NULL == 0

VARIABLES
    db,                 \* ProgressTracker.db is non-null (the extension is active)
    exercise_progress,  \* table exercise_progress: exercise_id -> row
    user_preferences,   \* table user_preferences: the row of this course
    currentProcess,     \* TestRunner.currentProcess: index into runs, 0 = null
    runs,               \* the unsettled runTest invocations, each with its subprocess
    courseLanguage,     \* CourseManager.course.language
    isCancelled,        \* BatchTestRunner.isCancelled
    isRunning,          \* BatchTestRunner.isRunning
    panel,              \* BatchTestRunner.panel and what its html shows
    batches,            \* the active runAllTests invocations
    policy,             \* the last call of the unlock policy and what it returned
    lastCall            \* the direct call of runTest or of a store operation the last step made

vars == <<db, exercise_progress, user_preferences, currentProcess, runs, courseLanguage, isCancelled, isRunning, panel, batches, policy, lastCall>>

storeVars == <<exercise_progress, user_preferences>>
RunSlots == 1..MaxRuns
BatchSlots == 1..MaxBatches
batchVars == <<isCancelled, isRunning, panel, batches>>

\* ------------------------------------------------------- ProgressTracker
\* absence of a row in exercise_progress
NoRow == [present |-> FALSE, completed |-> 0, last_attempt |-> NULL, completed_at |-> NULL]

\* markCompleted naming no completed_at column
markCompletedWithoutCompletedAt(table, exerciseId, now) ==
    [table EXCEPT ![exerciseId] =
        [present |-> TRUE, completed |-> 1, last_attempt |-> now, completed_at |-> NULL]]

\* markCompleted as DELETE of all rows followed by INSERT
markCompletedAlone(table, exerciseId, now) ==
    [e \in ExerciseIds |->
        IF e = exerciseId
        THEN [present |-> TRUE, completed |-> 1, last_attempt |-> now, completed_at |-> now]
        ELSE NoRow]

\* markAttempted as an UPDATE of last_attempt that keeps the completed flag
markAttemptedKeepingFlag(table, exerciseId, now) ==
    [table EXCEPT ![exerciseId] =
        [present |-> TRUE, completed |-> table[exerciseId].completed,
         last_attempt |-> now, completed_at |-> NULL]]

\* INSERT OR REPLACE (exercise_id, completed, last_attempt, completed_at) VALUES (?, 1, now, now)
markCompleted(table, exerciseId, now) ==
    [table EXCEPT ![exerciseId] =
        [present |-> TRUE, completed |-> 1, last_attempt |-> now, completed_at |-> now]]

\* markAttempted written as an UPDATE of completed and last_attempt: the
\* row's completed_at survives
markAttemptedKeepingCompletion(table, exerciseId, now) ==
    [table EXCEPT ![exerciseId] =
        [present |-> TRUE, completed |-> 0, last_attempt |-> now,
         completed_at |-> table[exerciseId].completed_at]]

\* INSERT OR REPLACE (exercise_id, completed, last_attempt) VALUES (?, 0, now):
\* the replaced row's completed_at is not carried over
markAttempted(table, exerciseId, now) ==
    [table EXCEPT ![exerciseId] =
        [present |-> TRUE, completed |-> 0, last_attempt |-> now, completed_at |-> NULL]]

\* getProgress resolves null when there is no row
NoProgress == [found |-> FALSE, completed |-> FALSE, lastAttempt |-> NULL, completedAt |-> NULL]

\* SELECT * FROM exercise_progress WHERE exercise_id = ?, converted to ExerciseProgress
getProgress(table, exerciseId) ==
    IF exerciseId \notin DOMAIN table THEN NoProgress
    ELSE IF ~table[exerciseId].present THEN NoProgress
    ELSE [found |-> TRUE,
          completed |-> (table[exerciseId].completed = 1),
          lastAttempt |-> table[exerciseId].last_attempt,
          completedAt |-> table[exerciseId].completed_at]

\* allExercises[i] of a JavaScript array (0-based); 0 stands for undefined
elementAt(allExercises, i) ==
    IF i + 1 \in DOMAIN allExercises THEN allExercises[i + 1] ELSE 0

\* the for loop of isExerciseUnlocked, from index i on
RECURSIVE unlockedFrom(_, _, _, _)
unlockedFrom(table, i, exerciseIndex, allExercises) ==
    IF i < exerciseIndex
    THEN LET progress == getProgress(table, elementAt(allExercises, i))
         IN IF ~progress.found \/ ~progress.completed
            THEN FALSE
            ELSE unlockedFrom(table, i + 1, exerciseIndex, allExercises)
    ELSE TRUE

\* isExerciseUnlocked with its loop started at index 1
isExerciseUnlockedFromOne(table, exerciseIndex, allExercises) ==
    IF exerciseIndex = 0 THEN TRUE
    ELSE unlockedFrom(table, 1, exerciseIndex, allExercises)

isExerciseUnlocked(table, exerciseIndex, allExercises) ==
    IF exerciseIndex = 0 THEN TRUE
    ELSE unlockedFrom(table, 0, exerciseIndex, allExercises)

\* getExerciseStatus without the lock: the status follows the record alone
getExerciseStatusUngated(table, exerciseId, exerciseIndex, allExercises) ==
    LET progress == getProgress(table, exerciseId)
    IN IF ~progress.found THEN "available"
       ELSE IF progress.completed THEN "completed"
       ELSE "in-progress"

\* getExerciseStatus without its final case: a record is taken as completed
getExerciseStatusRecordIsCompleted(table, exerciseId, exerciseIndex, allExercises) ==
    IF ~isExerciseUnlocked(table, exerciseIndex, allExercises) THEN "locked"
    ELSE IF ~getProgress(table, exerciseId).found THEN "available"
    ELSE "completed"

getExerciseStatus(table, exerciseId, exerciseIndex, allExercises) ==
    IF ~isExerciseUnlocked(table, exerciseIndex, allExercises) THEN "locked"
    ELSE LET progress == getProgress(table, exerciseId)
         IN IF ~progress.found THEN "available"
            ELSE IF progress.completed THEN "completed"
            ELSE "in-progress"

\* Math.round(x) for x = num / den >= 0: the integer nearest to x, the
\* upper one at a tie
round(num, den) == (2 * num + den) \div (2 * den)

\* getProgressSummary counting the completed records of the store
getProgressSummaryAllRecords(table, exercises) ==
    LET completed == Cardinality({e \in DOMAIN table : getProgress(table, e).completed})
        total == Len(exercises)
    IN [completed |-> completed,
        total |-> total,
        percentage |-> IF total > 0 THEN round(completed * 100, total) ELSE 0]

\* ExerciseTreeDataProvider.getProgressSummary
getProgressSummary(table, exercises) ==
    LET isCompleted(id) == getProgress(table, id).found /\ getProgress(table, id).completed
        completed == Len(SelectSeq(exercises, isCompleted))
        total == Len(exercises)
    IN [completed |-> completed,
        total |-> total,
        percentage |-> IF total > 0 THEN round(completed * 100, total) ELSE 0]

\* exercises.findIndex(ex => ex.id === exerciseId): 0-based, -1 when absent
getExerciseIndex(exercises, exerciseId) ==
    IF \E i \in 1..Len(exercises) : exercises[i] = exerciseId
    THEN (CHOOSE i \in 1..Len(exercises) :
             /\ exercises[i] = exerciseId
             /\ \A j \in 1..(i - 1) : exercises[j] # exerciseId) - 1
    ELSE -1

\* CourseManager.getNextExercise; 0 stands for undefined
getNextExercise(exercises, currentId) ==
    LET currentIndex == getExerciseIndex(exercises, currentId)
    IN IF currentIndex = -1 \/ currentIndex = Len(exercises) - 1 THEN 0
       ELSE elementAt(exercises, currentIndex + 1)

\* the for loop of getFirstIncompleteExercise, from the i-th exercise on
RECURSIVE firstIncompleteFrom(_, _, _)
firstIncompleteFrom(table, exercises, i) ==
    IF i > Len(exercises) THEN exercises[1]
    ELSE LET progress == getProgress(table, exercises[i])
         IN IF ~progress.found \/ ~progress.completed THEN exercises[i]
            ELSE firstIncompleteFrom(table, exercises, i + 1)

\* getFirstIncompleteExercise of extension.ts; 0 stands for undefined
getFirstIncompleteExercise(table, exercises) ==
    IF Len(exercises) = 0 THEN 0
    ELSE firstIncompleteFrom(table, exercises, 1)

\* the nextExercise command opening the successor without asking whether it
\* is unlocked
nextExerciseUnchecked(table, currentExercise, exercises) ==
    IF currentExercise = 0 THEN getFirstIncompleteExercise(table, exercises)
    ELSE getNextExercise(exercises, currentExercise)

\* command learnProgramming.nextExercise: the id of the exercise it opens,
\* 0 when it opens none
nextExercise(table, currentExercise, exercises) ==
    IF currentExercise = 0 THEN getFirstIncompleteExercise(table, exercises)
    ELSE LET next == getNextExercise(exercises, currentExercise)
         IN IF next # 0
            THEN LET index == getExerciseIndex(exercises, next)
                 IN IF isExerciseUnlocked(table, index, exercises) THEN next ELSE 0
            ELSE 0

\* ExerciseTreeDataProvider.getChildren with the index counted from 1
getChildrenFromOne(table, exercises) ==
    [i \in 1..Len(exercises) |-> getExerciseStatus(table, exercises[i], i, exercises)]

\* ExerciseTreeDataProvider.getChildren(): the statuses of the tree items,
\* getExerciseStatus(exercise.id, i, exerciseIds) for i = 0 .. length - 1
getChildren(table, exercises) ==
    [i \in 1..Len(exercises) |-> getExerciseStatus(table, exercises[i], i - 1, exercises)]

\* absence of the course's row in user_preferences
NoPrefs == [present |-> FALSE, hints_used |-> 0, total_test_runs |-> 0]

\* INSERT OR REPLACE (course_name, total_test_runs)
\*   VALUES (?, COALESCE((SELECT total_test_runs ...), 0) + 1):
\* the replaced row's hints_used is not carried over (column DEFAULT 0)
incrementTestRuns(prefs) ==
    [present |-> TRUE,
     hints_used |-> 0,
     total_test_runs |-> (IF prefs.present THEN prefs.total_test_runs ELSE 0) + 1]

\* INSERT OR REPLACE (course_name, hints_used)
\*   VALUES (?, COALESCE((SELECT hints_used ...), 0) + 1):
\* the replaced row's total_test_runs is not carried over (column DEFAULT 0)
incrementHintsUsed(prefs) ==
    [present |-> TRUE,
     hints_used |-> (IF prefs.present THEN prefs.hints_used ELSE 0) + 1,
     total_test_runs |-> 0]

\* a reset that also deletes the course's row of user_preferences
resetProgressAndCounters(table, prefs) ==
    <<[e \in ExerciseIds |-> NoRow], NoPrefs>>

\* DELETE FROM exercise_progress, as the pair <<exercise_progress,
\* user_preferences>> it leaves
resetProgress(table, prefs) ==
    <<[e \in ExerciseIds |-> NoRow], prefs>>

\* a data operation without the guard on this.db
storageThrowsNever(dbOpen) == FALSE

\* if (!this.db) throw new Error('Database not initialized')
storageThrows(dbOpen) == ~dbOpen

\* a schema that drops the tables before creating them
createTablesAnew(table, prefs) ==
    <<[e \in ExerciseIds |-> NoRow], NoPrefs>>

\* createTables: CREATE TABLE IF NOT EXISTS for each table, as the pair
\* <<exercise_progress, user_preferences>> it leaves
createTables(table, prefs) ==
    <<table, prefs>>

\* ------------------------------------------------------------ TestRunner
\* keys of LANGUAGE_CONFIGS
LANGUAGE_CONFIGS == {"javascript", "python", "go", "rust"}

\* the code argument of the 'close' event when the process died of a signal (null)
NullCode == -2
\* the code argument of 'close' after a failed spawn: the negative errno (EACCES)
SpawnErrno == -13
\* exit codes a test command ends with: success and failure
ExitCodes == {0, 1}
\* exitCode of a TestOutput that is not produced yet
NoExitCode == -3

(* One runTest invocation and the subprocess it spawned.
   proc:  "none"      no subprocess
          "spawnfail" spawn failed; the 'error' event is due on the next tick
          "failed"    spawn failed, 'error' was emitted, 'close' is still due
          "running"   the subprocess is alive
          "killed"    the subprocess is alive and kill() has signalled it
          "closed"    the 'close' event was delivered
   pc:    "idle"      the slot holds no invocation
          "exec"      awaiting executeTest
          "resolved"  executeTest's promise resolved, continuation runnable
          "incr"      awaiting incrementTestRuns
          "mark"      awaiting markCompleted / markAttempted
          "done"      runTest returned its TestOutput
          "threw"     runTest rejected (thrown tells why)
          "returned"  the caller took the outcome; the failed spawn's 'close'
                      is still due
   batch: the runAllTests invocation that called (a silent run), 0 for
          runTests() (an interactive run)
   result, exitCode: the TestOutput executeTest resolved with
   code:  the code passed to the 'close' handler
   cancelReq: cancelRunningTest was called while this run awaited executeTest
   completedBefore: the exercise's record was completed when runTest was called *)
IdleRun ==
    [exercise |-> 0, batch |-> 0, proc |-> "none", pc |-> "idle",
     thrown |-> "none", result |-> "none", exitCode |-> NoExitCode,
     code |-> NoExitCode, cancelReq |-> FALSE, completedBefore |-> FALSE,
     output |-> <<>>, received |-> <<>>, arrived |-> <<>>]

NewRun(exercise, batch, proc) ==
    [IdleRun EXCEPT !.exercise = exercise, !.batch = batch, !.proc = proc, !.pc = "exec"]

\* options.silent of the invocation: runAllTests passes {silent: true}
silent(r) == r.batch # 0

(* What runTest calls on the store after incrementTestRuns, by the result
   executeTest resolved with.  The silent path:
     if (result.result === TestResult.Passed) markCompleted
     else if (result.result === TestResult.Failed) markAttempted *)
silentPath(result) ==
    IF result = "passed" THEN "markCompleted"
    ELSE IF result = "failed" THEN "markAttempted"
    ELSE "none"

\* an interactive path that shows the failure and records no attempt
interactivePathWithoutAttempt(result) ==
    IF result = "passed" THEN "markCompleted" ELSE "none"

(* The interactive path, inside withProgress: Passed calls markCompleted and
   offers 'Next Exercise', Failed calls markAttempted and offers 'Get Hint' /
   'Try Again', anything else shows an error message only *)
interactivePath(result) ==
    IF result = "passed" THEN "markCompleted"
    ELSE IF result = "failed" THEN "markAttempted"
    ELSE "none"

\* the store call of the path the invocation r takes
storeCallAfter(r) ==
    IF silent(r) THEN silentPath(r.result) ELSE interactivePath(r.result)

Alive(r) == r.proc \in {"running", "killed"}

\* the lowest slot that holds no invocation
FreeSlot(rs) ==
    CHOOSE s \in RunSlots : rs[s].pc = "idle" /\ \A t \in 1..(s - 1) : rs[t].pc # "idle"

\* invocations that have not yet had their incrementTestRuns executed
TestRunsDue(rs) == Cardinality({s \in RunSlots : rs[s].pc \in {"exec", "resolved", "incr"}})

\* a further runTest can be taken up within the bounds
CanStart ==
    /\ \E s \in RunSlots : runs[s].pc = "idle"
    /\ user_preferences.total_test_runs + TestRunsDue(runs) < MaxTestRuns

\* ChildProcess.kill(): signals a live process; no effect without a live handle
kill(rs, p) ==
    [rs EXCEPT ![p].proc = IF @ = "running" THEN "killed" ELSE @]

\* cancelRunningTest, as the pair <<runs, currentProcess>> it leaves
cancelRunningTest(rs, cur) ==
    LET noted == [s \in RunSlots |->
                    IF rs[s].pc = "exec" THEN [rs[s] EXCEPT !.cancelReq = TRUE] ELSE rs[s]]
    IN IF cur # 0 THEN <<kill(noted, cur), 0>> ELSE <<noted, cur>>

(* The output of a subprocess.  A chunk is the Buffer of one 'data' event, a
   sequence of bytes: "a" an ASCII byte, "L" the lead byte and "T" the
   trail byte of a two-byte UTF-8 character.  Text is a sequence of
   characters: "a", "e'" for the two-byte character, "U+FFFD" for the
   replacement character.  Of an invocation, output is the variable `output`
   of executeTest, which the 'close' handler resolves as the result's
   output; received is what outputChannel.append was called with for it;
   arrived is the 'data' events as they came, <<stream, chunk>> each. *)
Chunks == {<<"a">>, <<"L", "T">>, <<"L">>}
Streams == {"stdout", "stderr"}

\* Buffer.toString(): UTF-8 decoding, every invalid byte becoming U+FFFD
RECURSIVE toString(_)
toString(data) ==
    IF data = <<>> THEN <<>>
    ELSE IF data[1] = "a" THEN <<"a">> \o toString(Tail(data))
    ELSE IF data[1] = "L" /\ Len(data) >= 2 /\ data[2] = "T"
         THEN <<"e'">> \o toString(SubSeq(data, 3, Len(data)))
    ELSE <<"U+FFFD">> \o toString(Tail(data))

\* the 'data' handlers with the one of stderr only showing the text
onDataStderrShownOnly(r, stream, data) ==
    LET text == toString(data)
    IN [r EXCEPT !.output = IF stream = "stdout" THEN @ \o text ELSE @,
                 !.received = @ \o text,
                 !.arrived = Append(@, <<stream, data>>)]

\* the 'data' handler of stdout and the one of stderr, which are the same:
\* output += text; this.outputChannel.append(text)
onData(r, stream, data) ==
    LET text == toString(data)
    IN [r EXCEPT !.output = @ \o text,
                 !.received = @ \o text,
                 !.arrived = Append(@, <<stream, data>>)]

\* the classification written as !code: a null code counts as 0
resultOfFalsy(code) == IF code \in {0, NullCode} THEN "passed" ELSE "failed"

\* code === 0 ? TestResult.Passed : TestResult.Failed
resultOf(code) == IF code = 0 THEN "passed" ELSE "failed"

\* exitCode: code || 0
exitCodeOf(code) == IF code = NullCode THEN 0 ELSE code

\* runTest without the language lookup: every tag is taken as configured
runTestAnyLanguage(rs, cur, exercise, valid, language, batch, spawned) ==
    IF ~valid
    THEN [runs |-> rs, currentProcess |-> cur, thrown |-> "validation", slot |-> 0]
    ELSE LET c == cancelRunningTest(rs, cur)
             s == FreeSlot(rs)
         IN [runs |-> [c[1] EXCEPT ![s] =
                          NewRun(exercise, batch,
                                 IF spawned THEN "running" ELSE "spawnfail")],
             currentProcess |-> s,
             thrown |-> "none",
             slot |-> s]

(* The synchronous part of runTest, up to its first await: validation,
   cancelRunningTest, the language lookup, then executeTest's spawn.
   valid: the exercise object has a non-empty id and title; spawned: spawn()
   started a process.  Yields the runs and currentProcess it leaves, and
   "validation" / "language" when it threw, else the slot of the invocation. *)
runTest(rs, cur, exercise, valid, language, batch, spawned) ==
    IF ~valid
    THEN [runs |-> rs, currentProcess |-> cur, thrown |-> "validation", slot |-> 0]
    ELSE LET c == cancelRunningTest(rs, cur)
         IN IF language \notin LANGUAGE_CONFIGS
            THEN [runs |-> c[1], currentProcess |-> c[2], thrown |-> "language", slot |-> 0]
            ELSE LET s == FreeSlot(rs)
                 IN [runs |-> [c[1] EXCEPT ![s] =
                                  NewRun(exercise, batch,
                                         IF spawned THEN "running" ELSE "spawnfail")],
                     currentProcess |-> s,
                     thrown |-> "none",
                     slot |-> s]

\* language tags a course.json can carry: two configured ones and one that is not
Languages == {"javascript", "rust", "cobol"}

\* the exercise objects passed: a complete one, and ones lacking one field
ExerciseObjects ==
    {[hasId |-> TRUE, hasTitle |-> TRUE, testFile |-> "path"],
     [hasId |-> FALSE, hasTitle |-> TRUE, testFile |-> "path"],
     [hasId |-> TRUE, hasTitle |-> FALSE, testFile |-> "path"],
     [hasId |-> TRUE, hasTitle |-> TRUE, testFile |-> "empty"],
     [hasId |-> TRUE, hasTitle |-> TRUE, testFile |-> "missing"]}

(* buildTestArgs throws: for javascript and python it calls
   path.relative(workspacePath, exercise.testFile), which throws a TypeError
   for an argument that is not a string; the empty string is accepted.  go
   and rust do not read testFile. *)
buildTestArgsThrows(language, testFile) ==
    language \in {"javascript", "python"} /\ testFile = "missing"

(* runTest for an exercise object given by its fields.  The validation
   looks at id and title only.  A throw of buildTestArgs, inside
   executeTest's promise executor and before spawn, rejects the promise
   runTest awaits: runTest throws ("type") after cancelRunningTest. *)
runTestCall(rs, cur, exercise, hasId, hasTitle, testFile, language, batch, spawned) ==
    IF hasId /\ hasTitle /\ language \in LANGUAGE_CONFIGS
       /\ buildTestArgsThrows(language, testFile)
    THEN LET c == cancelRunningTest(rs, cur)
         IN [runs |-> c[1], currentProcess |-> c[2], thrown |-> "type", slot |-> 0]
    ELSE runTest(rs, cur, exercise, hasId /\ hasTitle, language, batch, spawned)

(* The caller took the outcome of an invocation (runTest returned or threw).
   The slot is free again once the subprocess, if any, has closed; after a
   failed spawn the 'close' event can still be due. *)
release(r) ==
    IF r.proc \in {"closed", "none"} THEN IdleRun
    ELSE [IdleRun EXCEPT !.proc = r.proc, !.pc = "returned"]

\* the invocation noted with whether its exercise's record is completed now
noteBefore(started, table) ==
    IF started.slot = 0 THEN started.runs
    ELSE [started.runs EXCEPT ![started.slot].completedBefore =
             getProgress(table, started.runs[started.slot].exercise).completed]

\* -------------------------------------------------------- BatchTestRunner
(* One runAllTests invocation: its loop position and its progress object.
   pc:    "idle"  the slot holds no invocation
          "iter"  at the top of the for loop, runnable
          "await" awaiting testRunner.runTest of exercise idx (run is its slot)
   results: progress.results, "none" for an exercise without an entry
   cancelK: the number of iterations this invocation had begun when
            isCancelled was first set during it (by cancel() or by the
            panel's disposal), -1 while it was not set *)
IdleBatch ==
    [pc |-> "idle", idx |-> 0, run |-> 0,
     results |-> [e \in ExerciseIds |-> "none"],
     completed |-> 0, passed |-> 0, failed |-> 0,
     currentExercise |-> 0, cancelK |-> -1]

NewBatch == [IdleBatch EXCEPT !.pc = "iter", !.idx = 1]

\* updateWebview(progress, isComplete, message): nothing without a panel;
\* the html carries the Cancel button exactly when isComplete is false
updateWebview(pnl, isComplete, message) ==
    IF pnl = "none" THEN "none"
    ELSE IF ~isComplete THEN "progress"
    ELSE IF message THEN "cancelled" ELSE "completed"

isTestRunning == isRunning

\* ------------------------------------------------- calls of the unlock policy
\* what one runTest invocation returned and left in the store; none yet
NoOutcome ==
    [thrown |-> "none", result |-> "none", exitCode |-> NoExitCode,
     exercise_progress |-> <<>>, user_preferences |-> NoPrefs]

NoCall ==
    [fn |-> "none", exerciseId |-> 0, exerciseIndex |-> 0, allExercises |-> <<>>,
     unlocked |-> FALSE, status |-> "none", items |-> <<>>,
     completed |-> 0, total |-> 0, percentage |-> 0, opened |-> 0,
     valid |-> TRUE, language |-> "none", spawned |-> FALSE, code |-> NoExitCode,
     silentRun |-> NoOutcome, interactiveRun |-> NoOutcome]

\* the id lists of the courses up to MaxCourseLen exercises: ids are unique
\* within a course; an id above NumExercises is an exercise never run
CourseLists ==
    {ids \in UNION {[1..n -> 1..MaxCourseLen] : n \in 0..MaxCourseLen} :
        \A i, j \in 1..Len(ids) : ids[i] = ids[j] => i = j}

\* ------------------------------- direct calls of runTest and of the store
(* The call the last step made, with its arguments; NoLastCall after a step
   that is not such a call.  fn: "runTest" or the name of the
   ProgressTracker method; hasId, hasTitle: the exercise object has a
   non-empty id / title; testFile: "path", "empty" (the empty string) or
   "missing" (undefined); language: the language tag passed; thrown: what
   the synchronous part of the call threw; slot: the invocation it started.
   For a store operation: exercise, now: its exerciseId argument and the
   value of new Date(); rows: the number of Attempt Records when it was
   called; dbOpen: this.db was non-null when it was called; again: the step
   before made the same call, which did not throw; completedBefore: the
   record of exercise was completed when it was called *)
NoLastCall ==
    [fn |-> "none", hasId |-> TRUE, hasTitle |-> TRUE, testFile |-> "path",
     language |-> "none", thrown |-> "none", slot |-> 0, rows |-> 0,
     exercise |-> 0, now |-> NULL, dbOpen |-> TRUE, again |-> FALSE,
     completedBefore |-> FALSE]

\* the number of Attempt Records in the table
rowCount(table) == Cardinality({e \in ExerciseIds : table[e].present})

\* the ordered id lists a caller can pass
IdLists == UNION {[1..n -> ExerciseIds] : n \in 0..NumExercises}

\* the rows markCompleted and markAttempted leave, and the absence of a row
Rows ==
    {NoRow}
    \cup {[present |-> TRUE, completed |-> 1, last_attempt |-> t, completed_at |-> t] :
            t \in Times}
    \cup {[present |-> TRUE, completed |-> 0, last_attempt |-> t, completed_at |-> NULL] :
            t \in Times}

\* --------------------------------------------------------------- Init
Init ==
    /\ db = TRUE
    /\ exercise_progress = [e \in ExerciseIds |-> NoRow]
    /\ user_preferences = NoPrefs
    /\ currentProcess = 0
    /\ runs = [s \in RunSlots |-> IdleRun]
    /\ courseLanguage = "javascript"
    /\ isCancelled = FALSE
    /\ isRunning = FALSE
    /\ panel = "none"
    /\ batches = [b \in BatchSlots |-> IdleBatch]
    /\ policy = NoCall
    /\ lastCall = NoLastCall

\* ------------------------------------------------------- urgent steps
RunRunnable(s) ==
    \/ runs[s].pc = "resolved"
    \/ runs[s].proc = "spawnfail"
    \/ runs[s].batch = 0 /\ runs[s].pc \in {"done", "threw"}

BatchRunnable(b) ==
    \/ batches[b].pc = "iter"
    \/ /\ batches[b].pc = "await"
       /\ runs[batches[b].run].pc \in {"done", "threw"}

Urgent ==
    \/ \E s \in RunSlots : RunRunnable(s)
    \/ \E b \in BatchSlots : BatchRunnable(b)

\* the 'error' handler of executeTest, for a spawn that failed (next tick)
ErrorEvent(s) ==
    /\ runs[s].proc = "spawnfail"
    /\ runs' = [runs EXCEPT ![s].proc = "failed",
                            ![s].result = "error",
                            ![s].exitCode = -1,
                            ![s].cancelReq = FALSE,
                            ![s].pc = "resolved"]
    /\ lastCall' = NoLastCall
    /\ UNCHANGED <<policy, db, storeVars, currentProcess, courseLanguage, batchVars>>

\* runTest after `await this.executeTest(...)`: calls incrementTestRuns,
\* which throws when the database is not initialized
AfterExecute(s) ==
    /\ runs[s].pc = "resolved"
    /\ runs' = IF storageThrows(db)
               THEN [runs EXCEPT ![s].pc = "threw", ![s].thrown = "storage"]
               ELSE [runs EXCEPT ![s].pc = "incr"]
    /\ lastCall' = NoLastCall
    /\ UNCHANGED <<policy, db, storeVars, currentProcess, courseLanguage, batchVars>>

\* runTests(exercise) of extension.ts after `await testRunner.runTest(...)`:
\* the tree is refreshed, or the rejection is shown as an error message
RunTestsReturn(s) ==
    /\ runs[s].batch = 0
    /\ runs[s].pc \in {"done", "threw"}
    /\ runs' = [runs EXCEPT ![s] = release(@)]
    /\ lastCall' = NoLastCall
    /\ UNCHANGED <<policy, db, storeVars, currentProcess, courseLanguage, batchVars>>

\* ------------------------------------------------- events (not urgent)
\* the 'close' handler of executeTest
Close(s, code) ==
    /\ ~Urgent
    /\ \/ runs[s].proc = "running" /\ code \in ExitCodes
       \/ runs[s].proc = "killed" /\ code \in ExitCodes \cup {NullCode}
       \/ runs[s].proc = "failed" /\ code = SpawnErrno
    /\ currentProcess' = 0
    /\ runs' = IF runs[s].pc = "returned"
               THEN [runs EXCEPT ![s] = IdleRun]
               ELSE [runs EXCEPT
                        ![s].proc = "closed",
                        ![s].code = code,
                        ![s].result = IF runs[s].pc = "exec" THEN resultOf(code) ELSE @,
                        ![s].exitCode = IF runs[s].pc = "exec" THEN exitCodeOf(code) ELSE @,
                        ![s].cancelReq = FALSE,
                        ![s].pc = IF @ = "exec" THEN "resolved" ELSE @]
    /\ lastCall' = NoLastCall
    /\ UNCHANGED <<policy, db, storeVars, courseLanguage, batchVars>>

\* the statement queued by incrementTestRuns completes; runTest goes on to
\* markCompleted / markAttempted, or returns an Error result
IncrementDone(s) ==
    /\ ~Urgent
    /\ runs[s].pc = "incr"
    /\ user_preferences' = incrementTestRuns(user_preferences)
    /\ runs' = IF storeCallAfter(runs[s]) = "none" THEN [runs EXCEPT ![s].pc = "done"]
               ELSE IF storageThrows(db)
               THEN [runs EXCEPT ![s].pc = "threw", ![s].thrown = "storage"]
               ELSE [runs EXCEPT ![s].pc = "mark"]
    /\ lastCall' = NoLastCall
    /\ UNCHANGED <<policy, db, exercise_progress, currentProcess, courseLanguage,
                   batchVars>>

\* the statement queued by markCompleted / markAttempted completes and
\* runTest returns its result
MarkDone(s, now) ==
    /\ ~Urgent
    /\ runs[s].pc = "mark"
    /\ exercise_progress' =
          IF storeCallAfter(runs[s]) = "markCompleted"
          THEN markCompleted(exercise_progress, runs[s].exercise, now)
          ELSE markAttempted(exercise_progress, runs[s].exercise, now)
    /\ runs' = [runs EXCEPT ![s].pc = "done"]
    /\ lastCall' = NoLastCall
    /\ UNCHANGED <<policy, db, user_preferences, currentProcess, courseLanguage, batchVars>>

\* ------------------------------------------------ commands (not urgent)
\* runTests(exercise) of extension.ts: testRunner.runTest(exercise,
\* course.language); a rejection is caught and shown as an error message
runTests(exercise, valid, spawned) ==
    LET started == runTest(runs, currentProcess, exercise, valid, courseLanguage, 0, spawned)
    IN /\ CanStart
       /\ runs' = noteBefore(started, exercise_progress)
       /\ currentProcess' = started.currentProcess

\* command learnProgramming.runTests: returns early while isTestRunning()
RunTestsCommand(exercise, valid, spawned) ==
    /\ ~Urgent
    /\ db
    /\ IF isTestRunning
       THEN UNCHANGED <<runs, currentProcess>>
       ELSE runTests(exercise, valid, spawned)
    /\ lastCall' = NoLastCall
    /\ UNCHANGED <<policy, db, storeVars, courseLanguage, batchVars>>

\* the "Try Again" button of the "Tests failed" message of an interactive
\* run: executeCommand('learnProgramming.runTests', exercise) with the
\* exercise of that run.  Which messages are still open is not tracked: the
\* button does what the command does for a valid exercise.
TryAgain(exercise, spawned) ==
    RunTestsCommand(exercise, TRUE, spawned)

\* the Run Tests button of the exercise webview: onRunTests = runTests
WebviewRunTests(exercise, valid, spawned) ==
    /\ ~Urgent
    /\ db
    /\ runTests(exercise, valid, spawned)
    /\ lastCall' = NoLastCall
    /\ UNCHANGED <<policy, db, storeVars, courseLanguage, batchVars>>

\* the Cancel button of the progress notification of an interactive run,
\* shown until the withProgress callback settles
CancelToken(s) ==
    /\ ~Urgent
    /\ db
    /\ ~silent(runs[s])
    /\ runs[s].pc \in {"exec", "incr", "mark"}
    /\ LET c == cancelRunningTest(runs, currentProcess)
       IN /\ runs' = c[1]
          /\ currentProcess' = c[2]
    /\ lastCall' = NoLastCall
    /\ UNCHANGED <<policy, db, storeVars, courseLanguage, batchVars>>

\* command learnProgramming.runAllTests: runAllTests up to the top of its
\* loop: the flags, the panel (created or revealed), the first updateWebview
RunAllTestsCommand ==
    /\ ~Urgent
    /\ db
    /\ CanStart
    /\ \E b \in BatchSlots :
          /\ batches[b].pc = "idle"
          /\ \A c \in 1..(b - 1) : batches[c].pc # "idle"
          /\ batches' = [batches EXCEPT ![b] = NewBatch]
    /\ isCancelled' = FALSE
    /\ isRunning' = TRUE
    /\ panel' = "progress"
    /\ lastCall' = NoLastCall
    /\ UNCHANGED <<policy, db, storeVars, currentProcess, runs, courseLanguage>>

\* isCancelled is set while these invocations are active: note, once, how
\* many iterations each has begun
NoteCancel(bs) ==
    [b \in BatchSlots |->
        IF bs[b].pc # "idle" /\ bs[b].cancelK = -1
        THEN [bs[b] EXCEPT !.cancelK = IF bs[b].pc = "await" THEN bs[b].idx
                                       ELSE bs[b].idx - 1]
        ELSE bs[b]]

\* the Cancel button of the batch panel: BatchTestRunner.cancel()
BatchCancel ==
    /\ ~Urgent
    /\ db
    /\ panel = "progress"
    /\ isCancelled' = TRUE
    /\ isRunning' = FALSE
    /\ LET c == cancelRunningTest(runs, currentProcess)
       IN /\ runs' = c[1]
          /\ currentProcess' = c[2]
    /\ batches' = NoteCancel(batches)
    /\ lastCall' = NoLastCall
    /\ UNCHANGED <<policy, db, storeVars, courseLanguage, panel>>

\* the user closes the batch panel: panel.onDidDispose
PanelDispose ==
    /\ ~Urgent
    /\ db
    /\ panel # "none"
    /\ panel' = "none"
    /\ isCancelled' = TRUE
    /\ isRunning' = FALSE
    /\ batches' = NoteCancel(batches)
    /\ lastCall' = NoLastCall
    /\ UNCHANGED <<policy, db, storeVars, currentProcess, runs, courseLanguage>>

\* deactivate(): testRunner.dispose(), progressTracker.close(),
\* batchTestRunner.dispose() (which fires onDidDispose when a panel is open)
Deactivate ==
    /\ ~Urgent
    /\ db
    /\ LET c == cancelRunningTest(runs, currentProcess)
       IN /\ runs' = c[1]
          /\ currentProcess' = c[2]
    /\ db' = FALSE
    /\ panel' = "none"
    /\ isCancelled' = IF panel # "none" THEN TRUE ELSE isCancelled
    /\ isRunning' = IF panel # "none" THEN FALSE ELSE isRunning
    /\ batches' = IF panel # "none" THEN NoteCancel(batches) ELSE batches
    /\ lastCall' = NoLastCall
    /\ UNCHANGED <<policy, storeVars, courseLanguage>>

\* ------------------------------------------- the runAllTests loop (urgent)
\* an iteration that leaves no entry in results for a runTest that threw
recordResultUnlessThrown(batch, exercise, result, threw) ==
    [batch EXCEPT
        !.results = [@ EXCEPT ![exercise] = IF threw THEN @ ELSE result],
        !.passed = IF ~threw /\ result = "passed" THEN @ + 1 ELSE @,
        !.failed = IF threw \/ result = "failed" THEN @ + 1 ELSE @,
        !.completed = @ + 1,
        !.idx = @ + 1,
        !.run = 0,
        !.pc = "iter"]

\* the catch block and the tail of one iteration, for a runTest that threw
\* or returned `result`: results.set, the counters, completed++
recordResult(batch, exercise, result, threw) ==
    [batch EXCEPT
        !.results = [@ EXCEPT ![exercise] = IF threw THEN "error" ELSE result],
        !.passed = IF ~threw /\ result = "passed" THEN @ + 1 ELSE @,
        !.failed = IF threw \/ result = "failed" THEN @ + 1 ELSE @,
        !.completed = @ + 1,
        !.idx = @ + 1,
        !.run = 0,
        !.pc = "iter"]

\* the for loop is exhausted: updateWebview(progress, true); isRunning = false
BatchComplete(b) ==
    /\ batches[b].pc = "iter"
    /\ batches[b].idx > NumExercises
    /\ panel' = updateWebview(panel, TRUE, FALSE)
    /\ isRunning' = FALSE
    /\ batches' = [batches EXCEPT ![b] = IdleBatch]
    /\ lastCall' = NoLastCall
    /\ UNCHANGED <<policy, db, storeVars, currentProcess, runs, courseLanguage,
                   isCancelled>>

\* the isCancelled check at the top of an iteration finds the flag set:
\* updateWebview(progress, true, 'Tests cancelled by user'); isRunning = false
BatchCancelled(b) ==
    /\ batches[b].pc = "iter"
    /\ batches[b].idx <= NumExercises
    /\ isCancelled
    /\ panel' = updateWebview(panel, TRUE, TRUE)
    /\ isRunning' = FALSE
    /\ batches' = [batches EXCEPT ![b] = IdleBatch]
    /\ lastCall' = NoLastCall
    /\ UNCHANGED <<policy, db, storeVars, currentProcess, runs, courseLanguage,
                   isCancelled>>

\* one iteration up to its await: currentExercise, updateWebview, then
\* runTest(exercise, courseLanguage, {silent: true}); a throw is caught and
\* recorded at once.  valid: the exercise's entry of course.json has an id
\* and a title
BatchIterate(b, valid, spawned) ==
    /\ batches[b].pc = "iter"
    /\ batches[b].idx <= NumExercises
    /\ ~isCancelled
    /\ CanStart
    /\ LET exercise == CourseIds[batches[b].idx]
           started == runTest(runs, currentProcess, exercise, valid, courseLanguage, b, spawned)
           current == [batches[b] EXCEPT !.currentExercise = exercise]
       IN /\ runs' = noteBefore(started, exercise_progress)
          /\ currentProcess' = started.currentProcess
          /\ batches' = [batches EXCEPT ![b] =
                IF started.thrown # "none"
                THEN recordResult(current, exercise, "error", TRUE)
                ELSE [current EXCEPT !.pc = "await", !.run = started.slot]]
    /\ panel' = updateWebview(panel, FALSE, FALSE)
    /\ lastCall' = NoLastCall
    /\ UNCHANGED <<policy, db, storeVars, courseLanguage, isCancelled, isRunning>>

\* the awaited runTest settled: the rest of the iteration
BatchRecord(b) ==
    /\ batches[b].pc = "await"
    /\ runs[batches[b].run].pc \in {"done", "threw"}
    /\ LET r == runs[batches[b].run]
       IN /\ batches' = [batches EXCEPT ![b] =
                            recordResult(batches[b], r.exercise, r.result, r.pc = "threw")]
          /\ runs' = [runs EXCEPT ![batches[b].run] = release(@)]
    /\ panel' = updateWebview(panel, FALSE, FALSE)
    /\ lastCall' = NoLastCall
    /\ UNCHANGED <<policy, db, storeVars, currentProcess, courseLanguage,
                   isCancelled, isRunning>>

\* ------------------------------------------------------------------ Next
Next ==
    \/ \E s \in RunSlots : ErrorEvent(s)
    \/ \E s \in RunSlots : AfterExecute(s)
    \/ \E s \in RunSlots : RunTestsReturn(s)
    \/ \E b \in BatchSlots : BatchComplete(b)
    \/ \E b \in BatchSlots : BatchCancelled(b)
    \/ \E b \in BatchSlots, spawned \in BOOLEAN : BatchIterate(b, TRUE, spawned)
    \/ \E b \in BatchSlots : BatchRecord(b)
    \/ \E s \in RunSlots, code \in ExitCodes \cup {NullCode, SpawnErrno} : Close(s, code)
    \/ \E s \in RunSlots : IncrementDone(s)
    \/ \E s \in RunSlots, now \in Times : MarkDone(s, now)
    \/ \E e \in ExerciseIds, valid \in BOOLEAN, spawned \in BOOLEAN :
          RunTestsCommand(e, valid, spawned)
    \/ \E e \in ExerciseIds, spawned \in BOOLEAN : TryAgain(e, spawned)
    \/ \E e \in ExerciseIds, valid \in BOOLEAN, spawned \in BOOLEAN :
          WebviewRunTests(e, valid, spawned)
    \/ \E s \in RunSlots : CancelToken(s)
    \/ RunAllTestsCommand
    \/ BatchCancel
    \/ PanelDispose
    \/ Deactivate

Spec == Init /\ [][Next]_vars

\* ------------------------------------------- the executor and the store alone
\* a further runTest can be counted within the bound of ExecSpec
ExecBudget == user_preferences.total_test_runs + TestRunsDue(runs) < MaxExecRuns

\* the runTests command while no batch is ever started
ExecRunTests(exercise, valid, spawned) ==
    /\ ExecBudget
    /\ RunTestsCommand(exercise, valid, spawned)

\* urgent continuations of the executor: they run as soon as they are runnable
ExecUrgent ==
    \/ \E s \in RunSlots : ErrorEvent(s)
    \/ \E s \in RunSlots : AfterExecute(s)
    \/ \E s \in RunSlots : RunTestsReturn(s)

\* the store completes a queued statement
ExecStore ==
    \/ \E s \in RunSlots : IncrementDone(s)
    \/ \E s \in RunSlots, now \in Times : MarkDone(s, now)

\* a subprocess that was signalled, or whose spawn failed, closes
CloseKilled(s) ==
    /\ runs[s].proc \in {"killed", "failed"}
    /\ \E code \in ExitCodes \cup {NullCode, SpawnErrno} : Close(s, code)

ExecNext ==
    \/ ExecUrgent
    \/ ExecStore
    \/ \E s \in RunSlots, code \in ExitCodes \cup {NullCode, SpawnErrno} : Close(s, code)
    \/ \E e \in ExerciseIds, valid \in BOOLEAN, spawned \in BOOLEAN :
          ExecRunTests(e, valid, spawned)
    \/ \E s \in RunSlots : CancelToken(s)
    \/ Deactivate

ExecSpec == Init /\ [][ExecNext]_vars

\* the executor while the extension stays active: ExecNext without deactivate()
ActiveNext ==
    \/ ExecUrgent
    \/ ExecStore
    \/ \E s \in RunSlots, code \in ExitCodes \cup {NullCode, SpawnErrno} : Close(s, code)
    \/ \E e \in ExerciseIds, valid \in BOOLEAN, spawned \in BOOLEAN :
          ExecRunTests(e, valid, spawned)
    \/ \E s \in RunSlots : CancelToken(s)

(* The active executor with the scheduling the event loop gives: runnable
   continuations run, queued statements complete, and a subprocess that was
   signalled (or never started) closes.  A subprocess that was not signalled
   may run forever. *)
FairExecSpec ==
    /\ Init
    /\ [][ActiveNext]_vars
    /\ WF_vars(ExecUrgent)
    /\ WF_vars(ExecStore)
    /\ \A s \in RunSlots : WF_vars(CloseKilled(s))

\* ------------------------------------------- the unlock policy alone
\* any content of the store, before a call of the policy
PolicyInit ==
    /\ db = TRUE
    /\ exercise_progress \in [ExerciseIds -> Rows]
    /\ user_preferences = NoPrefs
    /\ currentProcess = 0
    /\ runs = [s \in RunSlots |-> IdleRun]
    /\ courseLanguage = "javascript"
    /\ isCancelled = FALSE
    /\ isRunning = FALSE
    /\ panel = "none"
    /\ batches = [b \in BatchSlots |-> IdleBatch]
    /\ policy = NoCall
    /\ lastCall = NoLastCall

\* a call progressTracker.isExerciseUnlocked(exerciseIndex, allExercises)
IsExerciseUnlockedCall(exerciseIndex, allExercises) ==
    /\ policy = NoCall
    /\ policy' = [NoCall EXCEPT
                    !.fn = "isExerciseUnlocked",
                    !.exerciseIndex = exerciseIndex,
                    !.allExercises = allExercises,
                    !.unlocked = isExerciseUnlocked(exercise_progress, exerciseIndex,
                                                    allExercises)]
    /\ lastCall' = NoLastCall
    /\ UNCHANGED <<db, storeVars, currentProcess, runs, courseLanguage, batchVars>>

\* a call progressTracker.getExerciseStatus(exerciseId, exerciseIndex, allExercises)
GetExerciseStatusCall(exerciseId, exerciseIndex, allExercises) ==
    /\ policy = NoCall
    /\ policy' = [NoCall EXCEPT
                    !.fn = "getExerciseStatus",
                    !.exerciseId = exerciseId,
                    !.exerciseIndex = exerciseIndex,
                    !.allExercises = allExercises,
                    !.status = getExerciseStatus(exercise_progress, exerciseId,
                                                 exerciseIndex, allExercises)]
    /\ lastCall' = NoLastCall
    /\ UNCHANGED <<db, storeVars, currentProcess, runs, courseLanguage, batchVars>>

\* the tree view asks for its items: exerciseProvider.getChildren()
GetChildrenCall(exercises) ==
    /\ policy = NoCall
    /\ policy' = [NoCall EXCEPT
                    !.fn = "getChildren",
                    !.allExercises = exercises,
                    !.items = getChildren(exercise_progress, exercises)]
    /\ lastCall' = NoLastCall
    /\ UNCHANGED <<db, storeVars, currentProcess, runs, courseLanguage, batchVars>>

\* the status bar asks for the summary: exerciseProvider.getProgressSummary()
GetProgressSummaryCall(exercises) ==
    /\ policy = NoCall
    /\ LET summary == getProgressSummary(exercise_progress, exercises)
       IN policy' = [NoCall EXCEPT
                        !.fn = "getProgressSummary",
                        !.allExercises = exercises,
                        !.completed = summary.completed,
                        !.total = summary.total,
                        !.percentage = summary.percentage]
    /\ lastCall' = NoLastCall
    /\ UNCHANGED <<db, storeVars, currentProcess, runs, courseLanguage, batchVars>>

\* command learnProgramming.nextExercise with currentExercise (0: none) in a
\* course with the given exercises
NextExerciseCommand(currentExercise, exercises) ==
    /\ policy = NoCall
    /\ policy' = [NoCall EXCEPT
                    !.fn = "nextExercise",
                    !.exerciseId = currentExercise,
                    !.allExercises = exercises,
                    !.opened = nextExercise(exercise_progress, currentExercise, exercises)]
    /\ lastCall' = NoLastCall
    /\ UNCHANGED <<db, storeVars, currentProcess, runs, courseLanguage, batchVars>>

PolicyNext ==
    \/ \E exercises \in CourseLists : GetProgressSummaryCall(exercises)
    \/ \E exercises \in CourseLists, currentExercise \in 0..MaxCourseLen :
          NextExerciseCommand(currentExercise, exercises)
    \/ \E allExercises \in IdLists, exerciseIndex \in 0..NumExercises :
          /\ exerciseIndex <= Len(allExercises)
          /\ IsExerciseUnlockedCall(exerciseIndex, allExercises)
    \/ \E allExercises \in IdLists, exerciseIndex \in 0..NumExercises,
          exerciseId \in ExerciseIds :
          /\ exerciseIndex <= Len(allExercises)
          /\ GetExerciseStatusCall(exerciseId, exerciseIndex, allExercises)
    \/ \E exercises \in IdLists : GetChildrenCall(exercises)

PolicySpec == PolicyInit /\ [][PolicyNext]_vars

\* ------------------------------------------- the store's operations alone
\* the call of a ProgressTracker method, as lastCall records it
storeCall(fn, exerciseId, now) ==
    [NoLastCall EXCEPT
        !.fn = fn,
        !.exercise = exerciseId,
        !.now = now,
        !.rows = rowCount(exercise_progress),
        !.dbOpen = db,
        !.again = (lastCall.fn = fn /\ lastCall.exercise = exerciseId
                   /\ lastCall.thrown = "none"),
        !.completedBefore = (exerciseId # 0 /\ exercise_progress[exerciseId].completed = 1),
        !.thrown = IF fn \notin {"initialize", "close"} /\ storageThrows(db)
                   THEN "storage" ELSE "none"]

\* progressTracker.markCompleted(exerciseId)
MarkCompletedCall(exerciseId, now) ==
    /\ exercise_progress' = IF storageThrows(db) THEN exercise_progress
                            ELSE markCompleted(exercise_progress, exerciseId, now)
    /\ lastCall' = storeCall("markCompleted", exerciseId, now)
    /\ UNCHANGED <<policy, db, user_preferences, currentProcess, runs, courseLanguage,
                   batchVars>>

\* progressTracker.markAttempted(exerciseId)
MarkAttemptedCall(exerciseId, now) ==
    /\ exercise_progress' = IF storageThrows(db) THEN exercise_progress
                            ELSE markAttempted(exercise_progress, exerciseId, now)
    /\ lastCall' = storeCall("markAttempted", exerciseId, now)
    /\ UNCHANGED <<policy, db, user_preferences, currentProcess, runs, courseLanguage,
                   batchVars>>

\* progressTracker.getProgress(exerciseId)
GetProgressCall(exerciseId) ==
    /\ lastCall' = storeCall("getProgress", exerciseId, NULL)
    /\ UNCHANGED <<policy, db, storeVars, currentProcess, runs, courseLanguage, batchVars>>

\* progressTracker.getAllProgress()
GetAllProgressCall ==
    /\ lastCall' = storeCall("getAllProgress", 0, NULL)
    /\ UNCHANGED <<policy, db, storeVars, currentProcess, runs, courseLanguage, batchVars>>

\* progressTracker.incrementTestRuns()
IncrementTestRunsCall ==
    /\ user_preferences.total_test_runs < MaxTestRuns
    /\ user_preferences' = IF storageThrows(db) THEN user_preferences
                           ELSE incrementTestRuns(user_preferences)
    /\ lastCall' = storeCall("incrementTestRuns", 0, NULL)
    /\ UNCHANGED <<policy, db, exercise_progress, currentProcess, runs, courseLanguage,
                   batchVars>>

\* HintProvider.generateHint: progressTracker.incrementHintsUsed()
IncrementHintsUsedCall ==
    /\ user_preferences.hints_used < MaxHints
    /\ user_preferences' = IF storageThrows(db) THEN user_preferences
                           ELSE incrementHintsUsed(user_preferences)
    /\ lastCall' = storeCall("incrementHintsUsed", 0, NULL)
    /\ UNCHANGED <<policy, db, exercise_progress, currentProcess, runs, courseLanguage,
                   batchVars>>

\* command learnProgramming.resetProgress, confirmed: progressTracker.resetProgress()
ResetProgressCommand ==
    /\ LET r == IF storageThrows(db) THEN <<exercise_progress, user_preferences>>
                ELSE resetProgress(exercise_progress, user_preferences)
       IN /\ exercise_progress' = r[1]
          /\ user_preferences' = r[2]
    /\ lastCall' = storeCall("resetProgress", 0, NULL)
    /\ UNCHANGED <<policy, db, currentProcess, runs, courseLanguage, batchVars>>

\* progressTracker.close(): closes the handle if there is one
CloseCall ==
    /\ db' = FALSE
    /\ lastCall' = storeCall("close", 0, NULL)
    /\ UNCHANGED <<policy, storeVars, currentProcess, runs, courseLanguage, batchVars>>

\* progressTracker.initialize(): this.db becomes a handle on the course's
\* database file (a new one when there was one already) and createTables runs
InitializeCall ==
    /\ db' = TRUE
    /\ LET r == createTables(exercise_progress, user_preferences)
       IN /\ exercise_progress' = r[1]
          /\ user_preferences' = r[2]
    /\ lastCall' = storeCall("initialize", 0, NULL)
    /\ UNCHANGED <<policy, currentProcess, runs, courseLanguage, batchVars>>

\* the ProgressTracker as its constructor leaves it: this.db is null
StoreInit ==
    /\ db = FALSE
    /\ exercise_progress = [e \in ExerciseIds |-> NoRow]
    /\ user_preferences = NoPrefs
    /\ currentProcess = 0
    /\ runs = [s \in RunSlots |-> IdleRun]
    /\ courseLanguage = "javascript"
    /\ isCancelled = FALSE
    /\ isRunning = FALSE
    /\ panel = "none"
    /\ batches = [b \in BatchSlots |-> IdleBatch]
    /\ policy = NoCall
    /\ lastCall = NoLastCall

StoreNext ==
    \/ \E e \in ExerciseIds, now \in StoreTimes : MarkCompletedCall(e, now)
    \/ \E e \in ExerciseIds, now \in StoreTimes : MarkAttemptedCall(e, now)
    \/ \E e \in ExerciseIds : GetProgressCall(e)
    \/ GetAllProgressCall
    \/ IncrementTestRunsCall
    \/ IncrementHintsUsedCall
    \/ ResetProgressCommand
    \/ CloseCall
    \/ InitializeCall

StoreSpec == StoreInit /\ [][StoreNext]_vars

\* ------------------------------------------- direct calls of runTest
\* a further counted runTest fits the bound of CallSpec
CallBudget == user_preferences.total_test_runs + TestRunsDue(runs) < MaxCallRuns

(* command learnProgramming.openCourse: courseManager.loadCourse() assigns
   this.course from course.json before validateCourseStructure() looks at
   it, so getCourse().language is the tag of the file whether or not the
   reload succeeded *)
OpenCourse(language) ==
    /\ ~Urgent
    /\ db
    /\ courseLanguage' = language
    /\ lastCall' = NoLastCall
    /\ UNCHANGED <<policy, db, storeVars, currentProcess, runs, batchVars>>

(* runTests(exercise) with an exercise object as the command's argument or
   the webview's message carries it: testRunner.runTest(exercise,
   course.language), the rejection shown as an error message *)
CallRunTests(exercise, hasId, hasTitle, testFile, spawned) ==
    /\ ~Urgent
    /\ db
    /\ \E s \in RunSlots : runs[s].pc = "idle"
    /\ LET started == runTestCall(runs, currentProcess, exercise, hasId, hasTitle,
                                  testFile, courseLanguage, 0, spawned)
       IN /\ started.slot # 0 => CallBudget
          /\ runs' = noteBefore(started, exercise_progress)
          /\ currentProcess' = started.currentProcess
          /\ lastCall' = [NoLastCall EXCEPT
                             !.fn = "runTest",
                             !.hasId = hasId,
                             !.hasTitle = hasTitle,
                             !.testFile = testFile,
                             !.language = courseLanguage,
                             !.thrown = started.thrown,
                             !.slot = started.slot]
    /\ UNCHANGED <<policy, db, storeVars, courseLanguage, batchVars>>

CallNext ==
    \/ ExecUrgent
    \/ ExecStore
    \/ \E s \in RunSlots, code \in ExitCodes \cup {NullCode, SpawnErrno} : Close(s, code)
    \/ \E e \in ExerciseIds, x \in ExerciseObjects, spawned \in BOOLEAN :
          CallRunTests(e, x.hasId, x.hasTitle, x.testFile, spawned)
    \/ \E language \in Languages : OpenCourse(language)

CallSpec == Init /\ [][CallNext]_vars

\* ----------------------- the store closed or not yet initialized
\* the runTests command within the bound of the direct-call specification
BudgetRunTests(exercise, spawned) ==
    /\ CallBudget
    /\ RunTestsCommand(exercise, TRUE, spawned)

\* a data operation of the ProgressTracker called while this.db is null
ClosedStoreCall ==
    /\ ~Urgent
    /\ ~db
    /\ \/ \E e \in ExerciseIds, now \in Times : MarkCompletedCall(e, now)
       \/ \E e \in ExerciseIds, now \in Times : MarkAttemptedCall(e, now)
       \/ \E e \in ExerciseIds : GetProgressCall(e)
       \/ GetAllProgressCall
       \/ IncrementTestRunsCall
       \/ IncrementHintsUsedCall
       \/ ResetProgressCommand

\* activate(): progressTracker.initialize() on the tracker just constructed,
\* or after deactivate() closed it
Activate ==
    /\ ~Urgent
    /\ ~db
    /\ InitializeCall

(* The tracker from its construction on: it is initialized, runs are
   started and recorded, deactivate() closes it while a run may still be
   waiting for its subprocess, and data operations are called while it is
   closed *)
ClosedNext ==
    \/ ExecUrgent
    \/ ExecStore
    \/ \E s \in RunSlots, code \in ExitCodes \cup {NullCode, SpawnErrno} : Close(s, code)
    \/ \E e \in ExerciseIds, spawned \in BOOLEAN : BudgetRunTests(e, spawned)
    \/ Deactivate
    \/ Activate
    \/ ClosedStoreCall

ClosedSpec == StoreInit /\ [][ClosedNext]_vars

\* ------------------------------------------- the output of a run
\* the number of 'data' events so far
RECURSIVE chunksArrived(_, _)
chunksArrived(rs, s) ==
    IF s = 0 THEN 0 ELSE Len(rs[s].arrived) + chunksArrived(rs, s - 1)

\* a 'data' event of the stdout or stderr stream of a subprocess that has
\* not closed
Data(s, stream, data) ==
    /\ ~Urgent
    /\ Alive(runs[s])
    /\ chunksArrived(runs, MaxRuns) < MaxChunks
    /\ runs' = [runs EXCEPT ![s] = onData(@, stream, data)]
    /\ lastCall' = NoLastCall
    /\ UNCHANGED <<policy, db, storeVars, currentProcess, courseLanguage, batchVars>>

OutputNext ==
    \/ ExecUrgent
    \/ ExecStore
    \/ \E s \in RunSlots, code \in ExitCodes \cup {NullCode, SpawnErrno} : Close(s, code)
    \/ \E spawned \in BOOLEAN : BudgetRunTests(1, spawned)
    \/ \E s \in RunSlots, stream \in Streams, data \in Chunks : Data(s, stream, data)

OutputSpec == Init /\ [][OutputNext]_vars

\* ------------------------------------------- one invocation, in either mode
(* runTest(exercise, language, {silent}) run to its end with nothing else
   happening: the validation, the language lookup, executeTest resolving by
   the 'error' event of a failed spawn or by 'close' with code, then
   incrementTestRuns and the store call of its path.  Yields what it threw or
   returned and the store it leaves. *)
runTestAlone(table, prefs, exercise, valid, language, isSilent, spawned, code, now) ==
    IF ~valid
    THEN [NoOutcome EXCEPT !.thrown = "validation",
                           !.exercise_progress = table, !.user_preferences = prefs]
    ELSE IF language \notin LANGUAGE_CONFIGS
    THEN [NoOutcome EXCEPT !.thrown = "language",
                           !.exercise_progress = table, !.user_preferences = prefs]
    ELSE LET result == IF spawned THEN resultOf(code) ELSE "error"
             exitCode == IF spawned THEN exitCodeOf(code) ELSE -1
             call == IF isSilent THEN silentPath(result) ELSE interactivePath(result)
         IN [thrown |-> "none",
             result |-> result,
             exitCode |-> exitCode,
             exercise_progress |->
                 IF call = "markCompleted" THEN markCompleted(table, exercise, now)
                 ELSE IF call = "markAttempted" THEN markAttempted(table, exercise, now)
                 ELSE table,
             user_preferences |-> incrementTestRuns(prefs)]

\* the same invocation made with {silent: true} and without, from the store
\* as it is, the subprocess doing the same in both
RunTestBothModes(exercise, valid, language, spawned, code, now) ==
    /\ policy' = [NoCall EXCEPT
                     !.fn = "runTest",
                     !.exerciseId = exercise,
                     !.valid = valid,
                     !.language = language,
                     !.spawned = spawned,
                     !.code = code,
                     !.silentRun = runTestAlone(exercise_progress, user_preferences,
                                                exercise, valid, language, TRUE,
                                                spawned, code, now),
                     !.interactiveRun = runTestAlone(exercise_progress, user_preferences,
                                                     exercise, valid, language, FALSE,
                                                     spawned, code, now)]
    /\ lastCall' = NoLastCall
    /\ UNCHANGED <<db, storeVars, currentProcess, runs, courseLanguage, batchVars>>

ModeNext ==
    \E exercise \in ExerciseIds, valid \in BOOLEAN, language \in Languages,
       spawned \in BOOLEAN, code \in ExitCodes \cup {NullCode}, now \in Times :
        RunTestBothModes(exercise, valid, language, spawned, code, now)

ModeSpec == PolicyInit /\ [][ModeNext]_vars

\* ------------------------------------------- one batch at a time
\* any course.json language tag, before the first command
BatchInit ==
    /\ db = TRUE
    /\ exercise_progress = [e \in ExerciseIds |-> NoRow]
    /\ user_preferences = NoPrefs
    /\ currentProcess = 0
    /\ runs = [s \in RunSlots |-> IdleRun]
    /\ courseLanguage \in Languages
    /\ isCancelled = FALSE
    /\ isRunning = FALSE
    /\ panel = "none"
    /\ batches = [b \in BatchSlots |-> IdleBatch]
    /\ policy = NoCall
    /\ lastCall = NoLastCall

\* the runAllTests command when no batch and no run is in flight and the
\* counter's bound leaves room for a run of every exercise
RunAllTestsAlone ==
    /\ \A b \in BatchSlots : batches[b].pc = "idle"
    /\ \A s \in RunSlots : runs[s].pc = "idle"
    /\ user_preferences.total_test_runs + NumExercises <= MaxTestRuns
    /\ RunAllTestsCommand

\* runnable continuations of the loop and of its runs
BatchUrgent ==
    \/ \E s \in RunSlots : ErrorEvent(s)
    \/ \E s \in RunSlots : AfterExecute(s)
    \/ \E b \in BatchSlots : BatchComplete(b)
    \/ \E b \in BatchSlots : BatchCancelled(b)
    \/ \E b \in BatchSlots, valid \in BOOLEAN, spawned \in BOOLEAN :
          BatchIterate(b, valid, spawned)
    \/ \E b \in BatchSlots : BatchRecord(b)

\* a subprocess exits, or the 'close' of a failed spawn is delivered
Exit(s) == \E code \in ExitCodes \cup {NullCode, SpawnErrno} : Close(s, code)

BatchNext ==
    \/ BatchUrgent
    \/ ExecStore
    \/ \E s \in RunSlots : Exit(s)
    \/ RunAllTestsAlone
    \/ BatchCancel
    \/ PanelDispose

\* what the event loop does by itself: a runnable continuation runs, a
\* queued statement completes, a subprocess exits
BatchProgress ==
    \/ BatchUrgent
    \/ ExecStore
    \/ \E s \in RunSlots : Exit(s)

(* Batches run one at a time with no interactive run, under the scheduling
   of the event loop: as long as a continuation is runnable, a statement is
   queued or a subprocess has not exited, one of these steps happens. *)
BatchSpec ==
    /\ BatchInit
    /\ [][BatchNext]_vars
    /\ WF_vars(BatchProgress)

\* ================================================================ claims

\* C1 (as stated): at most one subprocess spawned by the TestRunner is alive
\* at any time; a first run's subprocess has terminated before a second
\* runTest spawns.  kill() only signals, and spawn follows at once.
C1_AtMostOneAlive ==
    Cardinality({s \in RunSlots : Alive(runs[s])}) <= 1

\* C2 (as stated): while a runAllTests invocation is active (its loop has not
\* exited), no request for a single-exercise run reaches TestRunner.runTest:
\* no step starts an interactive run.
C2_BatchExcludesSingleRuns ==
    [][(\E b \in BatchSlots : batches[b].pc # "idle")
         => ~(\E s \in RunSlots :
                 /\ runs[s].pc = "idle"
                 /\ runs'[s].pc = "exec"
                 /\ runs'[s].batch = 0)]_vars

\* the exercise has a record with completed = true
RecordCompleted(id) ==
    exercise_progress[id].present /\ exercise_progress[id].completed = 1

\* every id at an index below `index` (0-based) has a completed record
PredecessorsCompleted(index, ids) ==
    \A j \in 1..index : RecordCompleted(ids[j])

\* C3: for every store content and every ordered id list,
\* isExerciseUnlocked(i, ids) is true iff every id at an index below i has a
\* record with completed = true (no record counts as not completed); for
\* i = 0 it is true whatever the store contains.
C3_UnlockedIffPredecessorsCompleted ==
    policy.fn = "isExerciseUnlocked" =>
        /\ policy.unlocked =
              PredecessorsCompleted(policy.exerciseIndex, policy.allExercises)
        /\ (policy.exerciseIndex = 0 => policy.unlocked)

\* a call for an index of 2 or more answered true: all predecessors completed
C3_Witness ==
    /\ policy.fn = "isExerciseUnlocked"
    /\ policy.exerciseIndex >= 2
    /\ policy.unlocked

\* C4: getExerciseStatus returns Locked iff the exercise is not unlocked;
\* else Available iff it has no record; else Completed iff the record has
\* completed = true; else InProgress.  The four cases are exhaustive and
\* mutually exclusive.
C4_StatusCases ==
    policy.fn = "getExerciseStatus" =>
        LET unlocked == PredecessorsCompleted(policy.exerciseIndex, policy.allExercises)
            row == exercise_progress[policy.exerciseId]
        IN /\ policy.status \in {"locked", "available", "completed", "in-progress"}
           /\ (policy.status = "locked") = ~unlocked
           /\ (policy.status = "available") = (unlocked /\ ~row.present)
           /\ (policy.status = "completed") =
                 (unlocked /\ row.present /\ row.completed = 1)
           /\ (policy.status = "in-progress") =
                 (unlocked /\ row.present /\ row.completed # 1)

\* a call for an exercise behind completed predecessors, itself attempted
\* and not completed, answered InProgress
C4_Witness ==
    /\ policy.fn = "getExerciseStatus"
    /\ policy.exerciseIndex >= 1
    /\ policy.status = "in-progress"

\* C5: when runTest(E) returns, E's record follows the result: Passed gives
\* completed = true with the attempt and the completion timestamp set;
\* Failed gives completed = false with no completion timestamp, also when E
\* was completed before; an Error result returns without a write, and the
\* only writes to the records are those of a Passed or Failed run to its own
\* exercise.
C5_RecordFollowsResult ==
    [][/\ \A s \in RunSlots :
            LET r == runs[s]
                row == exercise_progress'[r.exercise]
            IN (r.pc \in {"incr", "mark"} /\ runs'[s].pc = "done") =>
                  /\ (r.result = "passed") =>
                        /\ row.present
                        /\ row.completed = 1
                        /\ row.last_attempt # NULL
                        /\ row.completed_at # NULL
                  /\ (r.result = "failed") =>
                        /\ row.present
                        /\ row.completed = 0
                        /\ row.last_attempt # NULL
                        /\ row.completed_at = NULL
                  /\ (r.result = "error") => exercise_progress' = exercise_progress
       /\ (exercise_progress' # exercise_progress) =>
            \E s \in RunSlots :
                /\ runs[s].pc = "mark"
                /\ runs[s].result \in {"passed", "failed"}
                /\ \A e \in ExerciseIds :
                      e # runs[s].exercise => exercise_progress'[e] = exercise_progress[e]
      ]_vars

\* a run of an exercise that was completed returned Failed, and the record
\* is incomplete without a completion timestamp
C5_Witness ==
    \E s \in RunSlots :
        /\ runs[s].pc = "done"
        /\ runs[s].result = "failed"
        /\ runs[s].completedBefore
        /\ exercise_progress[runs[s].exercise].present
        /\ exercise_progress[runs[s].exercise].completed = 0
        /\ exercise_progress[runs[s].exercise].completed_at = NULL

\* C6: runTest classifies every run as a value: a 'close' with code 0 gives
\* Passed, with any other code Failed; a spawn that failed gives Error with
\* exit code -1, which the later 'close' does not change; runTest throws
\* only when the store is closed, never for a failing test.
C6_Classification ==
    \A s \in RunSlots :
        LET r == runs[s]
        IN /\ r.pc \in {"resolved", "incr", "mark", "done"} =>
                 IF r.proc = "failed" \/ r.code = SpawnErrno
                 THEN r.result = "error" /\ r.exitCode = -1
                 ELSE /\ r.proc = "closed"
                      /\ (r.code = 0 => r.result = "passed")
                      /\ (r.code # 0 => r.result = "failed")
           /\ r.pc = "threw" => (r.thrown = "storage" /\ ~db)

\* a run whose test command ended with exit code 1 returned Failed as a value
C6_Witness ==
    \E s \in RunSlots :
        /\ runs[s].pc = "done"
        /\ runs[s].code = 1
        /\ runs[s].result = "failed"

\* C7 (as stated): whenever cancelRunningTest is called while a runTest
\* invocation awaits its subprocess, that invocation's pending result is
\* eventually resolved, given that a signalled subprocess eventually closes.
C7_CancelResolves ==
    \A s \in RunSlots :
        (runs[s].pc = "exec" /\ runs[s].cancelReq) ~> (runs[s].pc # "exec")

\* C8 (as stated): a run whose subprocess was terminated by the signal of a
\* cancellation ('close' with a null code) resolves with Error, and its
\* further steps neither write a record nor increment total_test_runs.
C8_CancelledIsError ==
    [][\A s \in RunSlots :
          runs[s].code = NullCode =>
              /\ runs[s].result = "error"
              /\ (runs'[s].pc # runs[s].pc => storeVars' = storeVars)]_vars

\* C9 (as stated, counting an exercise in flight as iterated): a batch in
\* which cancellation was requested when k < n exercises had been iterated
\* ends with no more than k entries in its results and through the
\* cancelled exit, never after the whole list.
C9_CancelledBatchEndsWithK ==
    [][\A b \in BatchSlots :
          (/\ batches[b].pc = "iter"
           /\ batches'[b].pc = "idle"
           /\ batches[b].cancelK >= 0
           /\ batches[b].cancelK < NumExercises) =>
              /\ Cardinality({e \in ExerciseIds : batches[b].results[e] # "none"})
                    <= batches[b].cancelK
              /\ batches[b].idx <= NumExercises]_vars

\* C10 (as stated): runAllTests starts the runs in list order, each after
\* the results of all earlier exercises are recorded; once the cancellation
\* flag was set during a batch, that batch starts no further run; recorded
\* results do not change.
C10_InOrderAndStops ==
    [][\A b \in BatchSlots :
          /\ (batches[b].pc = "iter" /\ batches'[b].pc = "await") =>
                /\ batches[b].cancelK = -1
                /\ runs'[batches'[b].run].exercise = CourseIds[batches[b].idx]
                /\ \A j \in 1..(batches[b].idx - 1) :
                      batches[b].results[CourseIds[j]] # "none"
          /\ \A e \in ExerciseIds :
                (batches[b].results[e] # "none" /\ batches'[b].pc # "idle") =>
                    batches'[b].results[e] = batches[b].results[e]]_vars

\* C14 (as stated): the total-test-runs counter is monotonic: over any
\* sequence of store operations (test runs, hint uses, resets,
\* re-initialization) it never decreases, and a counted test run increases
\* it by exactly 1.
C14_CounterMonotonic ==
    [][/\ user_preferences'.total_test_runs >= user_preferences.total_test_runs
       /\ (lastCall'.fn = "incrementTestRuns" /\ lastCall'.thrown = "none") =>
             user_preferences'.total_test_runs = user_preferences.total_test_runs + 1]_vars

\* C19: from any reachable state resetProgress deletes every Attempt Record
\* and nothing else (the course's counters keep their values); afterwards
\* the first exercise is Available and every other exercise is Locked.
C19_ResetDeletesRecordsOnly ==
    [][(lastCall'.fn = "resetProgress" /\ lastCall'.thrown = "none") =>
          /\ \A e \in ExerciseIds : exercise_progress'[e] = NoRow
          /\ user_preferences' = user_preferences
          /\ db' = db
          /\ \A i \in 1..NumExercises :
                getExerciseStatus(exercise_progress', CourseIds[i], i - 1, CourseIds)
                   = IF i = 1 THEN "available" ELSE "locked"]_vars

\* a reset that found a record for every exercise and a counted test run
C19_Witness ==
    /\ lastCall.fn = "resetProgress"
    /\ lastCall.rows = NumExercises
    /\ user_preferences.total_test_runs > 0
    /\ \A e \in ExerciseIds : exercise_progress[e] = NoRow

\* C15 (as stated): when a run ends with Error because the subprocess failed
\* to start, no Attempt Record is written or changed, the total-test-runs
\* counter is not incremented and every exercise's status is as before: no
\* step of such a run, from the 'error' event to its return, changes the store.
C15_SpawnFailureLeavesStore ==
    [][\A s \in RunSlots :
          (runs[s].result = "error" /\ runs'[s].pc # runs[s].pc) =>
             /\ exercise_progress' = exercise_progress
             /\ user_preferences' = user_preferences]_vars

\* the status the tree shows for the exercise at position i of the course
statusOf(table, i) == getExerciseStatus(table, CourseIds[i], i - 1, CourseIds)

\* C18 (as stated): once an exercise's status has left Locked it never
\* becomes Locked again under any sequence of test runs.
C18_NeverLockedAgain ==
    [][\A i \in 1..NumExercises :
          statusOf(exercise_progress, i) # "locked" =>
             statusOf(exercise_progress', i) # "locked"]_vars

\* the records are exactly those of the first k exercises of ids, all completed
FirstCompleted(table, ids, k) ==
    \A e \in ExerciseIds :
        IF \E j \in 1..k : ids[j] = e
        THEN table[e].present /\ table[e].completed = 1
        ELSE ~table[e].present

\* C20: for a course of n >= 1 exercises, when exactly the first k (k < n)
\* are completed and there are no other records (k = 0: no records at all),
\* the tree shows Completed below position k, Available at position k and
\* Locked above it (positions counted from 0).
C20_TreeStatuses ==
    policy.fn = "getChildren" =>
       LET ids == policy.allExercises
           n == Len(ids)
       IN (n >= 1 /\ \A i, j \in 1..n : ids[i] = ids[j] => i = j) =>
             \A k \in 0..(n - 1) :
                FirstCompleted(exercise_progress, ids, k) =>
                   \A i \in 1..n :
                      policy.items[i] = IF i - 1 < k THEN "completed"
                                        ELSE IF i - 1 = k THEN "available"
                                        ELSE "locked"

\* the tree of the whole course with exactly the first exercise completed
C20_Witness ==
    /\ policy.fn = "getChildren"
    /\ policy.allExercises = CourseIds
    /\ FirstCompleted(exercise_progress, CourseIds, 1)
    /\ policy.items[1] = "completed"
    /\ policy.items[2] = "available"

\* the step leaves every invocation where it was and starts no subprocess
NothingSpawned ==
    \A s \in RunSlots :
        /\ runs'[s].pc = runs[s].pc
        /\ runs'[s].exercise = runs[s].exercise
        /\ runs'[s].proc \in {"running", "spawnfail"} => runs[s].proc = runs'[s].proc

\* the step writes no Attempt Record and changes no counter
NothingWritten ==
    /\ exercise_progress' = exercise_progress
    /\ user_preferences' = user_preferences

\* C16 (as stated): runTest called with an exercise whose identifier, title
\* or test-file path is empty or missing fails at once with a validation
\* error: no subprocess is spawned, no Attempt Record is written and no
\* counter is changed.
C16_InvalidExerciseRejected ==
    [][(/\ lastCall'.fn = "runTest"
        /\ ~lastCall'.hasId \/ ~lastCall'.hasTitle \/ lastCall'.testFile # "path") =>
          /\ lastCall'.thrown = "validation"
          /\ NothingSpawned
          /\ NothingWritten]_vars

Finishes(b) == batches[b].pc = "iter" /\ batches'[b].pc = "idle"

\* C11: in a batch that is not cancelled, a runTest that throws is recorded
\* as an Error result for its exercise and the batch goes on to the next
\* exercise; the batch ends through the end of its loop with an entry in
\* results for every exercise; and, every subprocess eventually exiting,
\* the batch terminates.
C11_ThrowRecordedBatchGoesOn ==
    /\ [][\A b \in BatchSlots :
             /\ (/\ batches[b].cancelK = -1
                 /\ batches[b].pc = "iter"
                 /\ batches'[b].pc = "iter"
                 /\ batches'[b] # batches[b]) =>
                   /\ batches'[b].idx = batches[b].idx + 1
                   /\ batches'[b].results[CourseIds[batches[b].idx]] = "error"
                   /\ batches'[b].failed = batches[b].failed + 1
                   /\ batches'[b].completed = batches[b].completed + 1
             /\ (Finishes(b) /\ batches[b].cancelK = -1) =>
                   /\ batches[b].idx = NumExercises + 1
                   /\ batches[b].completed = NumExercises
                   /\ \A e \in ExerciseIds : batches[b].results[e] # "none"]_vars
    /\ (\E b \in BatchSlots : batches[b].pc # "idle")
          ~> (\A b \in BatchSlots : batches[b].pc = "idle")

\* a batch that was not cancelled is at the end of its loop: runTest threw
\* for exercise 1, exercise 2 was run afterwards and passed
C11_Witness ==
    \E b \in BatchSlots :
        /\ batches[b].pc = "iter"
        /\ batches[b].idx = NumExercises + 1
        /\ batches[b].cancelK = -1
        /\ batches[b].results[1] = "error"
        /\ batches[b].results[2] = "passed"
        /\ batches[b].failed = 1

\* C12 (as stated): every runAllTests invocation ends in exactly one of two
\* reports: 'cancelled' whenever a cancellation was requested while the
\* batch was active, 'completed normally' only when every exercise was
\* attempted and no cancellation was requested during the batch.
C12_TerminalReport ==
    [][\A b \in BatchSlots :
          (Finishes(b) /\ panel' # "none") =>
             /\ panel' \in {"cancelled", "completed"}
             /\ batches[b].cancelK >= 0 => panel' = "cancelled"
             /\ panel' = "completed" =>
                   /\ batches[b].cancelK = -1
                   /\ batches[b].completed = NumExercises]_vars

\* C13 (as stated): a snapshot carries the exercise currently running while
\* one is running, and the snapshot emitted once the batch has finished
\* carries no current exercise.
C13_SnapshotCurrentExercise ==
    [][\A b \in BatchSlots :
          /\ (batches[b].pc = "iter" /\ batches'[b].pc = "await") =>
                batches'[b].currentExercise = runs'[batches'[b].run].exercise
          /\ Finishes(b) => batches[b].currentExercise = 0]_vars
\* the tables are equal except for the timestamps of the record of id
sameUpToTimestamps(before, after, id) ==
    /\ \A e \in ExerciseIds \ {id} : after[e] = before[e]
    /\ after[id].present = before[id].present
    /\ after[id].completed = before[id].completed
    /\ (after[id].last_attempt = NULL) = (before[id].last_attempt = NULL)
    /\ (after[id].completed_at = NULL) = (before[id].completed_at = NULL)

(* C21: a markCompleted(id) that directly follows a markCompleted(id) leaves
   the store as the first one left it, up to the values of the timestamps:
   the record of id is completed with both timestamps present, every other
   record and both counters are unchanged *)
C21_MarkCompletedIdempotent ==
    [][(lastCall'.fn = "markCompleted" /\ lastCall'.again /\ lastCall'.thrown = "none") =>
          /\ sameUpToTimestamps(exercise_progress, exercise_progress', lastCall'.exercise)
          /\ exercise_progress'[lastCall'.exercise].present
          /\ exercise_progress'[lastCall'.exercise].completed = 1
          /\ exercise_progress'[lastCall'.exercise].last_attempt # NULL
          /\ exercise_progress'[lastCall'.exercise].completed_at # NULL
          /\ user_preferences' = user_preferences]_vars

\* a second markCompleted(id) in a row, at a later time, beside another record
C21_Witness ==
    /\ lastCall.fn = "markCompleted"
    /\ lastCall.again
    /\ lastCall.thrown = "none"
    /\ lastCall.now = MaxStoreTime
    /\ \E e \in ExerciseIds \ {lastCall.exercise} : exercise_progress[e].present

(* C22: markAttempted(id) on a completed record leaves it not completed, with
   the attempt timestamp of the call and no completion timestamp; a
   markAttempted(id) that directly follows a markAttempted(id) changes
   nothing but the value of the attempt timestamp *)
C22_MarkAttemptedReverts ==
    [][(lastCall'.fn = "markAttempted" /\ lastCall'.thrown = "none") =>
          /\ lastCall'.completedBefore =>
                exercise_progress'[lastCall'.exercise] =
                    [present |-> TRUE, completed |-> 0,
                     last_attempt |-> lastCall'.now, completed_at |-> NULL]
          /\ lastCall'.again =>
                /\ sameUpToTimestamps(exercise_progress, exercise_progress',
                                      lastCall'.exercise)
                /\ exercise_progress'[lastCall'.exercise].completed = 0
                /\ exercise_progress'[lastCall'.exercise].completed_at = NULL
                /\ user_preferences' = user_preferences]_vars

\* markAttempted has just been called on a completed record
C22_Witness ==
    /\ lastCall.fn = "markAttempted"
    /\ lastCall.thrown = "none"
    /\ lastCall.completedBefore
    /\ exercise_progress[lastCall.exercise].completed = 0

(* C24: initialize on a store that is initialized succeeds, leaves every
   Attempt Record and both counters unchanged, and leaves the store
   initialized; the operation that follows it does not fail *)
C24_InitializeIdempotent ==
    [][/\ (lastCall'.fn = "initialize" /\ lastCall'.dbOpen) =>
             /\ lastCall'.thrown = "none"
             /\ exercise_progress' = exercise_progress
             /\ user_preferences' = user_preferences
             /\ db'
       /\ (lastCall.fn = "initialize" /\ lastCall'.fn # "none") =>
             lastCall'.thrown = "none"]_vars

\* initialize has been called on an initialized store that holds every
\* record and a counter
C24_Witness ==
    /\ lastCall.fn = "initialize"
    /\ lastCall.dbOpen
    /\ lastCall.rows = NumExercises
    /\ user_preferences.total_test_runs > 0

(* C26: markCompleted(id) and markAttempted(id) leave the record of every
   other exercise unchanged and the record of id present, and a step that
   removes a record is a resetProgress.  The table holds one row per
   exercise_id by its PRIMARY KEY, which is how exercise_progress is
   represented *)
C26_KeyedUpserts ==
    [][/\ (lastCall'.fn \in {"markCompleted", "markAttempted"}
           /\ lastCall'.thrown = "none") =>
             /\ \A e \in ExerciseIds \ {lastCall'.exercise} :
                    exercise_progress'[e] = exercise_progress[e]
             /\ exercise_progress'[lastCall'.exercise].present
             /\ rowCount(exercise_progress') =
                    IF exercise_progress[lastCall'.exercise].present
                    THEN lastCall'.rows ELSE lastCall'.rows + 1
       /\ (\E e \in ExerciseIds :
               exercise_progress[e].present /\ ~exercise_progress'[e].present) =>
             lastCall'.fn = "resetProgress"]_vars

\* a record has just been replaced while the table held another record
C26_Witness ==
    /\ lastCall.fn \in {"markCompleted", "markAttempted"}
    /\ lastCall.thrown = "none"
    /\ lastCall.rows = NumExercises
    /\ \E e \in ExerciseIds \ {lastCall.exercise} : exercise_progress[e].completed = 1


\* the data operations of the ProgressTracker
DataOperations ==
    {"markCompleted", "markAttempted", "getProgress", "getAllProgress", "resetProgress",
     "incrementTestRuns", "incrementHintsUsed"}

(* C23: a data operation of the ProgressTracker called before initialize or
   after close throws and leaves both tables as they were; a runTest whose
   store operation throws so is rejected with that error and does not
   return a result *)
C23_ClosedStoreFails ==
    [][/\ (lastCall'.fn \in DataOperations /\ ~lastCall'.dbOpen) =>
             /\ lastCall'.thrown = "storage"
             /\ exercise_progress' = exercise_progress
             /\ user_preferences' = user_preferences
       /\ \A s \in RunSlots :
             /\ (~db /\ runs[s].pc = "resolved" /\ runs'[s].pc # "resolved") =>
                   /\ runs'[s].pc = "threw"
                   /\ runs'[s].thrown = "storage"
                   /\ exercise_progress' = exercise_progress
                   /\ user_preferences' = user_preferences
             /\ (~db /\ runs[s].pc = "incr" /\ runs[s].result # "error"
                     /\ runs'[s].pc # "incr") =>
                   /\ runs'[s].pc = "threw"
                   /\ runs'[s].thrown = "storage"
                   /\ exercise_progress' = exercise_progress]_vars

\* markCompleted has been called on a closed store that holds a record
C23_Witness ==
    /\ lastCall.fn = "markCompleted"
    /\ ~lastCall.dbOpen
    /\ lastCall.thrown = "storage"
    /\ lastCall.rows > 0
    /\ ~exercise_progress[lastCall.exercise].present


(* C25 (as stated): a cancel that has nothing to cancel changes nothing.  A
   press of the batch panel's Cancel button while there is no subprocess
   signals none, and a press that follows an earlier press (isCancelled is
   set) signals no subprocess either, so that a run started after the first
   press is not cancelled by the second, and it writes no record *)
C25_CancelWithNothingToCancel ==
    [][BatchCancel =>
          /\ currentProcess = 0 => \A s \in RunSlots : runs'[s].proc = runs[s].proc
          /\ isCancelled =>
                /\ \A s \in RunSlots : runs'[s].proc = runs[s].proc
                /\ exercise_progress' = exercise_progress
                /\ user_preferences' = user_preferences]_vars


\* the invocation is between the exit of its subprocess, with a Passed or
\* Failed result, and the end of its store writes
Writing(r) == r.pc \in {"resolved", "incr", "mark"} /\ r.result \in {"passed", "failed"}

(* C27 (as stated): for any one exercise, at most one runTest invocation at
   a time is between the exit of its subprocess and the end of its store
   writes *)
C27_WritesDoNotInterleave ==
    \A e \in ExerciseIds :
        Cardinality({s \in RunSlots : runs[s].exercise = e /\ Writing(runs[s])}) <= 1


\* the exercise has a record with completed = true; an id the store never
\* saw has none
CompletedIn(id) == id \in ExerciseIds /\ RecordCompleted(id)

(* C28: getProgressSummary returns total = the number of course exercises,
   completed = the number of course exercises whose record is completed,
   and percentage = the integer nearest to completed / total * 100 (0 for an
   empty course); so 0 <= completed <= total and 0 <= percentage <= 100,
   whatever records the store holds for ids outside the course *)
C28_ProgressSummary ==
    policy.fn = "getProgressSummary" =>
        LET ids == policy.allExercises
            c == policy.completed
            t == policy.total
            p == policy.percentage
        IN /\ t = Len(ids)
           /\ c = Cardinality({i \in 1..Len(ids) : CompletedIn(ids[i])})
           /\ t = 0 => p = 0
           /\ t > 0 => /\ 2 * (100 * c - p * t) <= t
                       /\ 2 * (p * t - 100 * c) <= t
           /\ 0 <= c /\ c <= t
           /\ 0 <= p /\ p <= 100

\* two of three course exercises are completed, rounded up to 67
C28_Witness ==
    /\ policy.fn = "getProgressSummary"
    /\ policy.total = 3
    /\ policy.completed = 2
    /\ policy.percentage = 67

\* the 1-based position of id in ids, 0 when it is not there
positionIn(ids, id) ==
    IF \E i \in 1..Len(ids) : ids[i] = id
    THEN CHOOSE i \in 1..Len(ids) : ids[i] = id
    ELSE 0

\* every exercise before position k of ids is completed
AllCompletedBefore(ids, k) == \A j \in 1..(k - 1) : CompletedIn(ids[j])

(* C29: the Next Exercise command opens only an unlocked exercise.  With a
   current exercise that has a successor it opens the successor iff every
   exercise before the successor is completed, and nothing otherwise; with
   no current exercise it opens the first exercise that is not completed,
   or the first one when all are completed; whatever it opens has all its
   predecessors completed or is the first exercise *)
C29_NextOpensUnlocked ==
    policy.fn = "nextExercise" =>
        LET ids == policy.allExercises
            n == Len(ids)
            cur == positionIn(ids, policy.exerciseId)
            opened == positionIn(ids, policy.opened)
        IN /\ policy.opened # 0 =>
                 /\ opened # 0
                 /\ opened = 1 \/ AllCompletedBefore(ids, opened)
           /\ (policy.exerciseId # 0 /\ cur # 0 /\ cur < n) =>
                 /\ AllCompletedBefore(ids, cur + 1) => policy.opened = ids[cur + 1]
                 /\ ~AllCompletedBefore(ids, cur + 1) => policy.opened = 0
           /\ (policy.exerciseId # 0 /\ (cur = 0 \/ cur = n)) => policy.opened = 0
           /\ (policy.exerciseId = 0 /\ n > 0) =>
                 /\ opened # 0
                 /\ AllCompletedBefore(ids, opened)
                 /\ \/ ~CompletedIn(policy.opened)
                    \/ opened = 1 /\ \A i \in 1..n : CompletedIn(ids[i])
           /\ (policy.exerciseId = 0 /\ n = 0) => policy.opened = 0

\* the command was refused: the successor of the current exercise is locked
\* although the current exercise is completed
C29_Witness ==
    /\ policy.fn = "nextExercise"
    /\ policy.exerciseId # 0
    /\ CompletedIn(policy.exerciseId)
    /\ positionIn(policy.allExercises, policy.exerciseId) \in 2..(Len(policy.allExercises) - 1)
    /\ policy.opened = 0


\* the text of the chunks in the order of their 'data' events
RECURSIVE textOf(_)
textOf(events) ==
    IF events = <<>> THEN <<>>
    ELSE toString(Head(events)[2]) \o textOf(Tail(events))

(* C30: for a run that ended Passed or Failed, the output of the result is
   the text of all stdout and stderr chunks concatenated in the order their
   'data' events arrived, and the output channel was given the same text in
   the same order *)
C30_OutputIsChunksInOrder ==
    \A s \in RunSlots :
        runs[s].result \in {"passed", "failed"} =>
            /\ runs[s].output = textOf(runs[s].arrived)
            /\ runs[s].received = textOf(runs[s].arrived)

\* a run has ended after a chunk of stderr followed by a chunk of stdout
C30_Witness ==
    \E s \in RunSlots :
        /\ runs[s].result \in {"passed", "failed"}
        /\ Len(runs[s].arrived) = 2
        /\ runs[s].arrived[1][1] = "stderr"
        /\ runs[s].arrived[2][1] = "stdout"
        /\ runs[s].arrived[1][2] # runs[s].arrived[2][2]


(* C31 (as stated): currentProcess refers to the live subprocess for as long
   as that subprocess is alive: a step that leaves the tracked subprocess
   running, unsignalled, leaves currentProcess referring to it.  In
   particular the close of an earlier, replaced subprocess does not clear
   the reference.  Stated for the steps where every spawn has succeeded *)
C31_CurrentProcessAccurate ==
    [][(/\ \A s \in RunSlots : runs[s].proc \notin {"spawnfail", "failed"}
        /\ currentProcess # 0
        /\ runs[currentProcess].proc = "running"
        /\ runs'[currentProcess].proc = "running")
          => currentProcess' = currentProcess]_vars


(* C32 (as stated): at most one batch loop is active at any time, and a loop
   in which cancellation was requested does not begin a further exercise
   after a later runAllTests *)
C32_OneBatchLoop ==
    /\ Cardinality({b \in BatchSlots : batches[b].pc # "idle"}) <= 1
    /\ \A b \in BatchSlots :
          (batches[b].pc = "await" /\ batches[b].cancelK >= 0) =>
              batches[b].idx <= batches[b].cancelK


(* C33 (as stated): isTestRunning() is true exactly while a runAllTests
   invocation is between its start and the exit of its loop *)
C33_IsTestRunningAccurate ==
    isTestRunning = (\E b \in BatchSlots : batches[b].pc # "idle")


(* C34 (as stated): the result of every TestOutput agrees with its exit
   code: Passed iff the exit code is 0, Failed only with a non-zero exit
   code, Error iff the exit code is -1 *)
C34_ResultMatchesExitCode ==
    \A s \in RunSlots :
        runs[s].result # "none" =>
            /\ (runs[s].result = "passed") = (runs[s].exitCode = 0)
            /\ (runs[s].result = "failed") => runs[s].exitCode # 0
            /\ (runs[s].result = "error") = (runs[s].exitCode = -1)


(* C35 (as stated): in every snapshot of a batch over exercises with
   distinct ids, completed is the number of entries of results and at most
   total, passed is the number of Passed results and failed the number of
   results that are not Passed, so that passed + failed = completed *)
C35_BatchCounts ==
    \A b \in BatchSlots :
        batches[b].pc # "idle" =>
            LET entries == {e \in ExerciseIds : batches[b].results[e] # "none"}
                passes == {e \in ExerciseIds : batches[b].results[e] = "passed"}
            IN /\ batches[b].completed = Cardinality(entries)
               /\ batches[b].completed <= NumExercises
               /\ batches[b].passed = Cardinality(passes)
               /\ batches[b].failed = Cardinality(entries \ passes)
               /\ batches[b].passed + batches[b].failed = batches[b].completed


(* C36: for every store content and every ordered list of distinct ids, the
   exercises that are not Locked form a prefix of the list and every one of
   them but possibly the last is Completed, so at most one exercise is
   Available or InProgress *)
C36_Frontier ==
    policy.fn = "getChildren" =>
       LET ids == policy.allExercises
           n == Len(ids)
       IN (\A i, j \in 1..n : ids[i] = ids[j] => i = j) =>
             /\ \A i \in 1..n :
                   policy.items[i] # "locked" =>
                       \A j \in 1..(i - 1) : policy.items[j] = "completed"
             /\ Cardinality({i \in 1..n :
                    policy.items[i] \in {"available", "in-progress"}}) <= 1

\* the tree of the course while exercise 2 has a completed record beyond
\* the frontier: exercise 1 is in progress and exercise 2 is shown locked
C36_Witness ==
    /\ policy.fn = "getChildren"
    /\ policy.allExercises = CourseIds
    /\ RecordCompleted(2)
    /\ policy.items[1] = "in-progress"
    /\ policy.items[2] = "locked"


(* C37 (as stated): the two counters of the course are independent:
   incrementTestRuns raises total_test_runs by 1 and leaves hints_used as it
   was, incrementHintsUsed raises hints_used by 1 and leaves total_test_runs
   as it was, in every order of the two operations *)
C37_CountersIndependent ==
    [][/\ (lastCall'.fn = "incrementTestRuns" /\ lastCall'.thrown = "none") =>
             /\ user_preferences'.total_test_runs = user_preferences.total_test_runs + 1
             /\ user_preferences'.hints_used = user_preferences.hints_used
       /\ (lastCall'.fn = "incrementHintsUsed" /\ lastCall'.thrown = "none") =>
             /\ user_preferences'.hints_used = user_preferences.hints_used + 1
             /\ user_preferences'.total_test_runs = user_preferences.total_test_runs]_vars


(* C38 (as stated): an Attempt Record is written only for an exercise that
   is unlocked at that moment; in particular a batch never marks an exercise
   completed while the record of one of its predecessors says not completed *)
C38_ProgressionGated ==
    [][\A e \in ExerciseIds :
          (/\ exercise_progress'[e] # exercise_progress[e]
           /\ exercise_progress'[e].completed = 1) =>
              \A j \in 1..(e - 1) :
                  ~(exercise_progress[CourseIds[j]].present
                    /\ exercise_progress[CourseIds[j]].completed = 0)]_vars

(* C39 (as stated): a runTest call rejected before spawning, with the
   validation error or the unsupported-language error, leaves the executor
   as it was: every subprocess keeps its state, in particular a live one is
   not signalled, and currentProcess keeps its value *)
C39_RejectedCallLeavesExecutor ==
    [][(lastCall'.fn = "runTest" /\ lastCall'.thrown \in {"validation", "language"}) =>
          /\ \A s \in RunSlots : runs'[s].proc = runs[s].proc
          /\ currentProcess' = currentProcess]_vars


(* C40: for the same exercise, language, store and subprocess behaviour, runTest
   with silent = true and with silent = false throw the same or return the
   same result and exit code, and leave the same Attempt Records and the same
   counters. *)
C40_ModesEquivalent ==
    policy.fn = "runTest" => policy.silentRun = policy.interactiveRun

\* both modes ran a failing test of an exercise whose record was completed
C40_Witness ==
    /\ policy.fn = "runTest"
    /\ policy.interactiveRun.result = "failed"
    /\ policy.silentRun.result = "failed"
    /\ exercise_progress[policy.exerciseId].present
    /\ exercise_progress[policy.exerciseId].completed = 1
    /\ policy.interactiveRun.exercise_progress[policy.exerciseId].completed = 0
    /\ policy.interactiveRun.user_preferences.total_test_runs = 1

====
